---- MODULE Spec2Model ----
(***************************************************************************)
(* The Engine actor of src/engine.rs: one task that owns the registries    *)
(* `indexes` and `monitors`, consumes a bounded tokio mpsc mailbox in      *)
(* arrival order and creates / stops the index and item-monitor actors.    *)
(* Callers use the EngineExt wrappers on a clone of the mailbox sender.    *)
(* Every await of the Engine task is a point where the task can be         *)
(* suspended: an arm of the loop is one step per await it contains.        *)
(***************************************************************************)
EXTENDS Integers, Sequences, FiniteSets, TLC

\* mpsc::channel(10): the capacity of the Engine mailbox.
Capacity == 10

\* Bounds of the model.
NumIds == 2
NumCallers == 2
MaxSends == 4
StormSends == 2
LiveSends == 3

IndexIds == 1..NumIds
Callers == 1..NumCallers
\* The oneshot channels in use at one time: one per call that awaits a reply.
Chans == 1..MaxSends
\* Dimensions carried by AddIndex: 0 is rejected by index::new, 128 is valid.
Dimensions == {0, 128}
\* The definition event a redelivery storm repeats.
StormId == 1
StormDims == 0

None == 0

VARIABLES
    indexes,     \* HashMap IndexId -> index actor (a partial function)
    monitors,    \* HashMap IndexId -> monitor actor (a partial function)
    actors,      \* every actor created so far, by actor number
    supervised,  \* actor numbers attached to the Supervisor
    modifyDel,   \* per id: del(id) messages sent to the modify actor
    queue,       \* messages buffered in the Engine mailbox
    closed,      \* rx.close() was called, or rx was dropped
    waiters,     \* callers suspended in send(), in FIFO order
    running,     \* the Engine task has not finished
    arm,         \* where the Engine task is: at recv() or at an await of an arm
    pc,          \* per caller: where it is inside an EngineExt call
    pend,        \* per caller: the message of its current call
    oneshot,     \* per oneshot channel: its state and the value sent
    ret,         \* per caller: what its last call returned
    last,        \* the last message the Engine finished, and its outcome
    sendsLeft,   \* calls the callers may still issue
    storm,       \* the redelivery storm of one definition event is on
    calls        \* the message types the callers issue

regs == <<indexes, monitors>>
subs == <<actors, supervised, modifyDel>>
mbox == <<queue, closed, waiters>>
clnt == <<pc, pend, oneshot, ret>>
wkld == <<sendsLeft, storm, calls>>
vars == <<indexes, monitors, actors, supervised, modifyDel, queue, closed,
          waiters, running, arm, pc, pend, oneshot, ret, last, sendsLeft, storm,
          calls>>

----------------------------------------------------------------------------
\* enum Engine; tx is the oneshot channel whose sender the message carries.
GetIndexesMsg(ch) == [type |-> "GetIndexes", id |-> None, dims |-> 0, tx |-> ch]
AddIndexMsg(i, d) == [type |-> "AddIndex", id |-> i, dims |-> d, tx |-> None]
DelIndexMsg(i) == [type |-> "DelIndex", id |-> i, dims |-> 0, tx |-> None]
GetIndexMsg(i, ch) == [type |-> "GetIndex", id |-> i, dims |-> 0, tx |-> ch]
\* MessageStop::message_stop
StopMsg == [type |-> "Stop", id |-> None, dims |-> 0, tx |-> None]
NoMsg == [type |-> "none", id |-> None, dims |-> 0, tx |-> None]

HasReply(m) == m.type \in {"GetIndexes", "GetIndex"}

\* HashMap operations on partial functions.
Insert(map, k, v) == [x \in (DOMAIN map) \cup {k} |-> IF x = k THEN v ELSE map[x]]
Remove_Nothing(map, k) == map
Remove(map, k) == [x \in (DOMAIN map) \ {k} |-> map[x]]
EmptyMap == [x \in {} |-> None]

\* oneshot::channel(): st is "idle" (not in use), "open", "sent", "tx_dropped"
\* or "rx_dropped"; ids / handle carry the value sent.
Chan(st, ids, h) == [st |-> st, ids |-> ids, handle |-> h]
NoChan == Chan("idle", {}, None)

\* What get_indexes / get_index returned: via is "reply" (the Engine's answer),
\* "send_err" (send failed) or "recv_err" (the reply sender was dropped).
Ret(op, via, ids, h) == [op |-> op, via |-> via, ids |-> ids, handle |-> h]
NoRet == Ret("none", "none", {}, None)

\* The three actors engine::new starts and attaches before the loop runs.
SystemActors ==
    << [kind |-> "monitor_indexes", id |-> None, stops |-> 0, running |-> TRUE],
       [kind |-> "modify_indexes", id |-> None, stops |-> 0, running |-> TRUE],
       [kind |-> "monitor_queries", id |-> None, stops |-> 0, running |-> TRUE] >>

NoLast == [type |-> "none", id |-> None, dims |-> 0, outcome |-> "none", actor |-> None]
Last(m, outcome, a) ==
    [type |-> m.type, id |-> m.id, dims |-> m.dims, outcome |-> outcome, actor |-> a]

\* The Engine task's position: at is "recv" (about to poll rx.recv()),
\* "parked" (rx.recv() returned Pending on the closed mailbox and nothing has
\* woken the task since) or the await of an arm it is suspended at; msg is
\* the message of the arm, index_actor / monitor_actor its local handles.
Arm(at, m, ia, ma) == [at |-> at, msg |-> m, index_actor |-> ia, monitor_actor |-> ma]
AtRecv == Arm("recv", NoMsg, None, None)
AtHead == arm.at \in {"recv", "parked"}

----------------------------------------------------------------------------
\* The message types of enum Engine, and those of the lookups and of Stop.
AllCalls == {"GetIndexes", "AddIndex", "DelIndex", "GetIndex", "Stop"}
LookupCalls == {"GetIndexes", "GetIndex", "Stop"}

\* engine::new up to tokio::spawn, and the first two lines of the task.
Constructed ==
    /\ indexes = EmptyMap
    /\ monitors = EmptyMap
    /\ actors = SystemActors
    /\ supervised = {1, 2, 3}
    /\ modifyDel = [i \in IndexIds |-> 0]
    /\ queue = <<>>
    /\ closed = FALSE
    /\ waiters = <<>>
    /\ running = TRUE
    /\ arm = AtRecv
    /\ pc = [c \in Callers |-> "idle"]
    /\ pend = [c \in Callers |-> NoMsg]
    /\ oneshot = [ch \in Chans |-> NoChan]
    /\ ret = [c \in Callers |-> NoRet]
    /\ last = NoLast

\* The workloads: MaxSends calls of any type, or StormSends calls of any type
\* during a redelivery storm.
Init ==
    /\ Constructed
    /\ \/ sendsLeft = MaxSends /\ storm = FALSE /\ calls = AllCalls
       \/ sendsLeft = StormSends /\ storm = TRUE /\ calls = AllCalls

\* The workloads of the liveness specifications: LiveSends calls of any type, or
\* StormSends lookups and stops during a redelivery storm.
LiveInit ==
    /\ Constructed
    /\ \/ sendsLeft = LiveSends /\ storm = FALSE /\ calls = AllCalls
       \/ sendsLeft = StormSends /\ storm = TRUE /\ calls = LookupCalls

----------------------------------------------------------------------------
\* Callers granted a permit by the semaphore that have not resumed yet.
Granted == {c \in Callers : pc[c] = "granted"}

\* Permits of the bounded channel that nobody holds.
FreePermits == Capacity - Len(queue) - Cardinality(Granted)

\* The workload: a call is paid from the budget of calls; during a storm the
\* redelivered definition event is sent again and again, unpaid.
Spend(m) ==
    \/ /\ sendsLeft > 0
       /\ m.type \in calls
       /\ sendsLeft' = sendsLeft - 1
       /\ UNCHANGED <<storm, calls>>
    \/ /\ storm
       /\ m = AddIndexMsg(StormId, StormDims)
       /\ UNCHANGED <<sendsLeft, storm, calls>>

\* oneshot::channel() of a new call: a channel that is not in use.
FreeChans == {ch \in Chans : oneshot[ch].st = "idle"}
NewChan == CHOOSE ch \in FreeChans : \A other \in FreeChans : ch <= other

\* Both ends of the oneshot channel of message m are gone.
Release(os, m) == IF HasReply(m) THEN [os EXCEPT ![m.tx] = NoChan] ELSE os

\* What a call leaves in ret when send() fails: get_indexes returns Vec::new(),
\* get_index returns None; add_index, del_index and actor_stop return ()
\* whether the send failed or not.
SendErr(c, m) ==
    IF HasReply(m) THEN [ret EXCEPT ![c] = Ret(m.type, "send_err", {}, None)] ELSE ret

\* mpsc::Sender::send(msg).await, up to its first suspension: an error when the
\* channel is closed, the message buffered when a permit is free, otherwise
\* the caller joins the semaphore's wait list.
send(c, m) ==
    /\ pc[c] = "idle"
    /\ Spend(m)
    /\ IF closed
       THEN /\ ret' = SendErr(c, m)
            /\ UNCHANGED <<queue, waiters, pc, pend, oneshot>>
       ELSE IF FreePermits > 0
       THEN /\ queue' = Append(queue, m)
            /\ IF HasReply(m)
               THEN /\ pc' = [pc EXCEPT ![c] = "recv"]
                    /\ pend' = [pend EXCEPT ![c] = m]
                    /\ oneshot' = [oneshot EXCEPT ![m.tx] = Chan("open", {}, None)]
                    /\ UNCHANGED ret
               ELSE UNCHANGED <<pc, pend, oneshot, ret>>
            /\ UNCHANGED waiters
       ELSE /\ waiters' = Append(waiters, c)
            /\ pc' = [pc EXCEPT ![c] = "send"]
            /\ pend' = [pend EXCEPT ![c] = m]
            /\ oneshot' = IF HasReply(m)
                          THEN [oneshot EXCEPT ![m.tx] = Chan("open", {}, None)]
                          ELSE oneshot
            /\ UNCHANGED <<queue, ret>>
    /\ UNCHANGED <<regs, subs, closed, running, arm, last>>

\* EngineExt::get_indexes, up to the send.
get_indexes(c) == FreeChans # {} /\ send(c, GetIndexesMsg(NewChan))

\* EngineExt::add_index.
add_index(c, i, d) == send(c, AddIndexMsg(i, d))

\* EngineExt::del_index.
del_index(c, i) == send(c, DelIndexMsg(i))

\* EngineExt::get_index, up to the send.
get_index(c, i) == FreeChans # {} /\ send(c, GetIndexMsg(i, NewChan))

\* ActorStop::actor_stop on the Engine's handle: sends Engine::Stop.
actor_stop(c) == send(c, StopMsg)

\* A suspended send() resumes with the permit it was handed: the message is
\* buffered; a caller that resumes after the close may get the error instead,
\* and then gives the permit back, which wakes nobody.
SendGranted(c) ==
    /\ pc[c] = "granted"
    /\ \/ /\ queue' = Append(queue, pend[c])
          /\ IF HasReply(pend[c])
             THEN /\ pc' = [pc EXCEPT ![c] = "recv"]
                  /\ UNCHANGED <<pend, oneshot, ret>>
             ELSE /\ pc' = [pc EXCEPT ![c] = "idle"]
                  /\ pend' = [pend EXCEPT ![c] = NoMsg]
                  /\ UNCHANGED <<oneshot, ret>>
       \/ /\ closed
          /\ pc' = [pc EXCEPT ![c] = "idle"]
          /\ ret' = SendErr(c, pend[c])
          /\ pend' = [pend EXCEPT ![c] = NoMsg]
          /\ oneshot' = Release(oneshot, pend[c])
          /\ UNCHANGED queue
    /\ UNCHANGED <<regs, subs, closed, waiters, running, arm, last, wkld>>

\* A suspended send() is woken by the close: Err, so the else branches of
\* get_indexes / get_index and the unwrap_or_else of add_index / del_index.
SendRejected(c) ==
    /\ pc[c] = "rejected"
    /\ pc' = [pc EXCEPT ![c] = "idle"]
    /\ ret' = SendErr(c, pend[c])
    /\ pend' = [pend EXCEPT ![c] = NoMsg]
    /\ oneshot' = Release(oneshot, pend[c])
    /\ UNCHANGED <<regs, subs, mbox, running, arm, last, wkld>>

\* rx.await of get_indexes (unwrap_or(Vec::new())) and get_index (ok().flatten()).
Reply(c) ==
    /\ pc[c] = "recv"
    /\ oneshot[pend[c].tx].st \in {"sent", "tx_dropped"}
    /\ ret' = [ret EXCEPT ![c] =
                 IF oneshot[pend[c].tx].st = "sent"
                 THEN Ret(pend[c].type, "reply",
                          oneshot[pend[c].tx].ids, oneshot[pend[c].tx].handle)
                 ELSE Ret(pend[c].type, "recv_err", {}, None)]
    /\ pc' = [pc EXCEPT ![c] = "idle"]
    /\ pend' = [pend EXCEPT ![c] = NoMsg]
    /\ oneshot' = Release(oneshot, pend[c])
    /\ UNCHANGED <<regs, subs, mbox, running, arm, last, wkld>>

\* The wait list without caller c.
Without(ws, c) == SelectSeq(ws, LAMBDA w : w # c)

\* The requester drops the future of its call at one of its awaits. In
\* send(): it leaves the wait list, or gives back the permit it was handed,
\* which goes to the next suspended sender; the message is never sent.
\* Waiting for the reply: the oneshot receiver is dropped. The caller can
\* call again at once.
Cancel(c) ==
    /\ pc[c] \in {"send", "granted", "rejected", "recv"}
    /\ pc' = [d \in Callers |->
                IF d = c THEN "idle"
                ELSE IF pc[c] = "granted" /\ waiters # <<>> /\ d = Head(waiters)
                THEN "granted" ELSE pc[d]]
    /\ waiters' = IF pc[c] = "send" THEN Without(waiters, c)
                  ELSE IF pc[c] = "granted" /\ waiters # <<>> THEN Tail(waiters)
                  ELSE waiters
    /\ oneshot' = IF pc[c] = "recv" /\ oneshot[pend[c].tx].st = "open"
                  THEN [oneshot EXCEPT ![pend[c].tx] = Chan("rx_dropped", {}, None)]
                  ELSE Release(oneshot, pend[c])
    /\ pend' = [pend EXCEPT ![c] = NoMsg]
    /\ UNCHANGED <<regs, subs, queue, closed, running, arm, last, ret, wkld>>

\* A holder of a clone of the mailbox sender drops it.
DropSender(c) ==
    /\ pc[c] = "idle"
    /\ pc' = [pc EXCEPT ![c] = "gone"]
    /\ UNCHANGED <<regs, subs, mbox, running, arm, last, pend, oneshot, ret, wkld>>

\* What becomes of a message sent on the handle of index actor a: delivered
\* to a live actor; dropped or rejected by one that was sent stop; rejected
\* once its task has ended.
HandleSendOutcomes(a) ==
    IF ~actors[a].running THEN {"rejected"}
    ELSE IF actors[a].stops > 0 THEN {"dropped", "rejected"}
    ELSE {"delivered"}

\* The caller sends an Index message on the handle its last get_index
\* returned; nothing of the Engine is involved.
HandleSend(c) ==
    /\ pc[c] = "idle"
    /\ ret[c].handle # None
    /\ \E via \in HandleSendOutcomes(ret[c].handle) :
          ret' = [ret EXCEPT ![c] = Ret("IndexSend", via, {}, ret[c].handle)]
    /\ UNCHANGED <<regs, subs, mbox, running, arm, last, pc, pend, oneshot, wkld>>

----------------------------------------------------------------------------
\* Receiving a message frees its permit, which goes to the longest suspended
\* sender, if there is one.
WaitersAfterRecv == IF waiters = <<>> THEN <<>> ELSE Tail(waiters)
PcAfterRecv == IF waiters = <<>> THEN pc ELSE [pc EXCEPT ![Head(waiters)] = "granted"]

\* rx.recv().await returns Some(msg), the head of the mailbox; a suspended
\* receiver is woken by the sender that buffered the message.
RecvSome ==
    /\ running
    /\ AtHead
    /\ queue # <<>>
    /\ queue' = Tail(queue)

\* A loop body that leaves the mailbox open.
KeepOpen_ClosesMailbox ==
    /\ waiters' = WaitersAfterRecv
    /\ pc' = PcAfterRecv
    /\ closed' = (closed \/ last'.outcome \in {"index_err", "reply_failed"})
KeepOpen ==
    /\ waiters' = WaitersAfterRecv
    /\ pc' = PcAfterRecv
    /\ UNCHANGED closed

\* oneshot::Sender::send(v): delivered unless the receiver was dropped; then
\* the value is dropped and nothing is left of the channel.
TxSend(ch, ids, h) ==
    IF oneshot[ch].st = "open"
    THEN [oneshot EXCEPT ![ch] = Chan("sent", ids, h)]
    ELSE [oneshot EXCEPT ![ch] = NoChan]

Replied(ch) == IF oneshot[ch].st = "open" THEN "replied" ELSE "reply_failed"

\* Engine::GetIndexes { tx }
GetIndexes(m) ==
    /\ m.type = "GetIndexes"
    /\ oneshot' = TxSend(m.tx, DOMAIN indexes, None)
    /\ last' = Last(m, Replied(m.tx), None)
    /\ arm' = AtRecv
    /\ KeepOpen
    /\ UNCHANGED <<regs, subs, pend, ret, wkld, running>>

\* index::new(id, modify_actor, dimensions, ...): Ok unless the parameters
\* are invalid.
IndexNewOk(dims) == dims > 0

\* indexes.contains_key(&id)
ContainsKey_Never(i) == FALSE
ContainsKey_OrEverTried(i) ==
    i \in DOMAIN indexes \/ \E a \in 1..Len(actors) : actors[a].id = i
ContainsKey(i) == i \in DOMAIN indexes

\* if let Ok((index_actor, index_task)) = index::new(...)
IndexCreated_Unchecked(m) == TRUE
IndexCreated(m) == IndexNewOk(m.dims)

\* supervisor_actor.attach(actor, task).await
Attach_Skipped(sup, a) == sup
Attach(sup, a) == sup \cup {a}

\* The record of a freshly spawned actor.
NewActor(kind, i) == [kind |-> kind, id |-> i, stops |-> 0, running |-> TRUE]

\* ActorStop::actor_stop on a subordinate actor: one more stop request sent.
ActorStop(as, a) == [as EXCEPT ![a].stops = @ + 1]

\* The task of actor a has run to its end.
Joined(as, a) == [as EXCEPT ![a].running = FALSE]

\* Engine::AddIndex { id, col_id, col_emb, dimensions, ... }, up to the await
\* of monitor_items::new.
AddIndex(m) ==
    /\ m.type = "AddIndex"
    /\ IF ContainsKey(m.id)
       THEN \* continue
            /\ last' = Last(m, "dup", None)
            /\ arm' = AtRecv
            /\ UNCHANGED actors
       ELSE IF ~IndexCreated(m)
       THEN \* error!("unable to create index ...")
            /\ last' = Last(m, "index_err", None)
            /\ arm' = AtRecv
            /\ UNCHANGED actors
       ELSE \* index::new returned Ok((index_actor, index_task))
            /\ actors' = Append(actors, NewActor("index", m.id))
            /\ arm' = Arm("monitor_new", m, Len(actors) + 1, None)
            /\ UNCHANGED last
    /\ KeepOpen
    /\ UNCHANGED <<regs, supervised, modifyDel, pend, oneshot, ret, wkld, running>>

\* monitor_items::new(...).await returns: Ok((monitor_actor, monitor_task)),
\* and the arm goes on to the first attach, or Err, and it goes on to the
\* rollback.
MonitorItemsNew ==
    /\ running
    /\ arm.at = "monitor_new"
    /\ \/ /\ actors' = Append(actors, NewActor("monitor", arm.msg.id))
          /\ arm' = [arm EXCEPT !.at = "attach_index", !.monitor_actor = Len(actors) + 1]
       \/ /\ arm' = [arm EXCEPT !.at = "rollback_stop"]
          /\ UNCHANGED actors
    /\ UNCHANGED <<regs, supervised, modifyDel, mbox, running, clnt, last, wkld>>

\* supervisor_actor.attach(index_actor.clone(), index_task).await returns.
AttachIndex ==
    /\ running
    /\ arm.at = "attach_index"
    /\ supervised' = Attach(supervised, arm.index_actor)
    /\ arm' = [arm EXCEPT !.at = "attach_monitor"]
    /\ UNCHANGED <<regs, actors, modifyDel, mbox, running, clnt, last, wkld>>

\* supervisor_actor.attach(monitor_actor.clone(), monitor_task).await returns;
\* indexes.insert(id.clone(), index_actor); monitors.insert(id, monitor_actor).
AttachMonitor ==
    /\ running
    /\ arm.at = "attach_monitor"
    /\ supervised' = Attach(supervised, arm.monitor_actor)
    /\ indexes' = Insert(indexes, arm.msg.id, arm.index_actor)
    /\ monitors' = Insert(monitors, arm.msg.id, arm.monitor_actor)
    /\ last' = Last(arm.msg, "added", arm.index_actor)
    /\ arm' = AtRecv
    /\ UNCHANGED <<actors, modifyDel, mbox, running, clnt, wkld>>

\* index_actor.actor_stop().await returns: the stop request is sent.
RollbackStop_Forgotten ==
    /\ running
    /\ arm.at = "rollback_stop"
    /\ last' = Last(arm.msg, "monitor_err", arm.index_actor)
    /\ arm' = AtRecv
    /\ UNCHANGED <<regs, subs, mbox, running, clnt, wkld>>
RollbackStop ==
    /\ running
    /\ arm.at = "rollback_stop"
    /\ actors' = ActorStop(actors, arm.index_actor)
    /\ arm' = [arm EXCEPT !.at = "rollback_join"]
    /\ UNCHANGED <<regs, supervised, modifyDel, mbox, running, clnt, last, wkld>>

\* index_task.await returns, which it does once the task of the index actor
\* has ended; the arm is over.
RollbackJoin_NoJoin ==
    /\ running
    /\ arm.at = "rollback_join"
    /\ last' = Last(arm.msg, "monitor_err", arm.index_actor)
    /\ arm' = AtRecv
    /\ UNCHANGED <<regs, subs, mbox, running, clnt, wkld>>
RollbackJoin ==
    /\ running
    /\ arm.at = "rollback_join"
    /\ ~actors[arm.index_actor].running
    /\ last' = Last(arm.msg, "monitor_err", arm.index_actor)
    /\ arm' = AtRecv
    /\ UNCHANGED <<regs, subs, mbox, running, clnt, wkld>>

\* if let Some(monitor) = monitors.remove(&id): where the DelIndex arm
\* suspends next, in monitor.actor_stop().await or in modify_actor.del(id).await.
MonitorsRemove_Skipped(a, m) == Arm("modify_del", m, a, None)
MonitorsRemove(a, m) ==
    IF m.id \in DOMAIN monitors
    THEN Arm("stop_monitor", m, a, monitors[m.id])
    ELSE Arm("modify_del", m, a, None)

\* Engine::DelIndex { id }, up to its first await.
DelIndex_UnlessHandleOut(m) ==
    /\ m.type = "DelIndex"
    /\ IF \E c \in Callers : m.id \in DOMAIN indexes /\ ret[c].handle = indexes[m.id]
       THEN /\ arm' = AtRecv
            /\ last' = Last(m, "absent", None)
            /\ UNCHANGED regs
       ELSE /\ indexes' = Remove(indexes, m.id)
            /\ IF m.id \in DOMAIN indexes
               THEN /\ arm' = Arm("stop_index", m, indexes[m.id], None)
                    /\ UNCHANGED monitors
               ELSE /\ arm' = MonitorsRemove(None, m)
                    /\ monitors' = Remove(monitors, m.id)
            /\ UNCHANGED last
    /\ UNCHANGED <<subs, pend, oneshot, ret, wkld, running>>
    /\ KeepOpen
DelIndex(m) ==
    /\ m.type = "DelIndex"
    /\ indexes' = Remove(indexes, m.id)
    /\ IF m.id \in DOMAIN indexes
       THEN /\ arm' = Arm("stop_index", m, indexes[m.id], None)
            /\ UNCHANGED monitors
       ELSE /\ arm' = MonitorsRemove(None, m)
            /\ monitors' = Remove(monitors, m.id)
    /\ UNCHANGED <<subs, pend, oneshot, ret, last, wkld, running>>
    /\ KeepOpen

\* index.actor_stop().await returns; monitors.remove(&id).
StopIndex ==
    /\ running
    /\ arm.at = "stop_index"
    /\ actors' = ActorStop(actors, arm.index_actor)
    /\ arm' = MonitorsRemove(arm.index_actor, arm.msg)
    /\ monitors' = IF arm'.at = "stop_monitor" THEN Remove(monitors, arm.msg.id)
                   ELSE monitors
    /\ UNCHANGED <<indexes, supervised, modifyDel, mbox, running, clnt, last, wkld>>

\* monitor.actor_stop().await returns.
StopMonitor ==
    /\ running
    /\ arm.at = "stop_monitor"
    /\ actors' = ActorStop(actors, arm.monitor_actor)
    /\ arm' = [arm EXCEPT !.at = "modify_del"]
    /\ UNCHANGED <<regs, supervised, modifyDel, mbox, running, clnt, last, wkld>>

\* The del(id) messages sent to the modify actor once one more is sent.
ModifyDel_IfPresent(i) ==
    IF arm.index_actor # None THEN [modifyDel EXCEPT ![i] = @ + 1] ELSE modifyDel
ModifyDel(i) == [modifyDel EXCEPT ![i] = @ + 1]

\* modify_actor.del(id).await returns; the arm is over.
ModifyActorDel_AwaitsExit ==
    /\ running
    /\ arm.at = "modify_del"
    /\ \A a \in {arm.index_actor, arm.monitor_actor} \ {None} : ~actors[a].running
    /\ modifyDel' = ModifyDel(arm.msg.id)
    /\ last' = Last(arm.msg, IF arm.index_actor # None THEN "removed" ELSE "absent", None)
    /\ arm' = AtRecv
    /\ UNCHANGED <<regs, actors, supervised, mbox, running, clnt, wkld>>
ModifyActorDel ==
    /\ running
    /\ arm.at = "modify_del"
    /\ modifyDel' = ModifyDel(arm.msg.id)
    /\ last' = Last(arm.msg, IF arm.index_actor # None THEN "removed" ELSE "absent", None)
    /\ arm' = AtRecv
    /\ UNCHANGED <<regs, actors, supervised, mbox, running, clnt, wkld>>

\* indexes.get(&id).cloned()
Lookup(i) == IF i \in DOMAIN indexes THEN indexes[i] ELSE None

\* Engine::GetIndex { id, tx }
GetIndex_Takes(m) ==
    /\ m.type = "GetIndex"
    /\ oneshot' = TxSend(m.tx, {}, Lookup(m.id))
    /\ indexes' = Remove(indexes, m.id)
    /\ last' = Last(m, Replied(m.tx), None)
    /\ arm' = AtRecv
    /\ KeepOpen
    /\ UNCHANGED <<monitors, subs, pend, ret, wkld, running>>
GetIndex(m) ==
    /\ m.type = "GetIndex"
    /\ oneshot' = TxSend(m.tx, {}, Lookup(m.id))
    /\ last' = Last(m, Replied(m.tx), None)
    /\ arm' = AtRecv
    /\ KeepOpen
    /\ UNCHANGED <<regs, subs, pend, ret, wkld, running>>

\* Engine::Stop => rx.close(): no new permit is given out and every sender
\* still suspended in send() is woken with an error.
Stop_Ignored(m) ==
    /\ m.type = "Stop"
    /\ last' = Last(m, "closed", None)
    /\ arm' = AtRecv
    /\ waiters' = WaitersAfterRecv
    /\ pc' = PcAfterRecv
    /\ UNCHANGED <<regs, subs, closed, pend, oneshot, ret, wkld, running>>
Stop(m) ==
    /\ m.type = "Stop"
    /\ closed' = TRUE
    /\ waiters' = <<>>
    /\ pc' = [c \in Callers |->
                IF \E k \in 1..Len(WaitersAfterRecv) : WaitersAfterRecv[k] = c
                THEN "rejected" ELSE PcAfterRecv[c]]
    /\ last' = Last(m, "closed", None)
    /\ arm' = AtRecv
    /\ UNCHANGED <<regs, subs, pend, oneshot, ret, wkld, running>>

\* `while let Some(msg) = rx.recv().await { match msg ... }`: a message is
\* received and its arm runs to its first await, or to its end.
ProcessGetIndexes == RecvSome /\ GetIndexes(Head(queue))
ProcessAddIndex == RecvSome /\ AddIndex(Head(queue))
ProcessDelIndex == RecvSome /\ DelIndex(Head(queue))
ProcessGetIndex == RecvSome /\ GetIndex(Head(queue))
ProcessStop == RecvSome /\ Stop(Head(queue))

\* Every clone of the mailbox sender has been dropped.
SendersGone == \A c \in Callers : pc[c] = "gone"

\* rx.recv() finds what makes it return None: the channel is closed or
\* without senders, nothing is buffered and no permit is outstanding.
RecvNone_OnClose == closed \/ (queue = <<>> /\ SendersGone)
RecvNone ==
    /\ queue = <<>>
    /\ Granted = {}
    /\ closed \/ SendersGone

\* rx.recv().await finds neither a message nor the end of the channel and
\* suspends the task. A message buffered later wakes it, and so does the drop
\* of the last sender; a permit that is given back does not. On an open
\* mailbox every event that lets recv() return also wakes the task, so that
\* being suspended there is the same as being about to poll; on the closed
\* mailbox the suspended task no longer sees the last permit come back.
RecvPending ==
    /\ running
    /\ arm.at = "recv"
    /\ closed
    /\ queue = <<>>
    /\ ~RecvNone
    /\ arm' = [arm EXCEPT !.at = "parked"]
    /\ UNCHANGED <<regs, subs, mbox, running, clnt, last, wkld>>

\* The oneshot senders inside messages dropped with the mailbox.
DroppedTx == {queue[k].tx : k \in {j \in 1..Len(queue) : HasReply(queue[j])}}

\* rx.recv().await returns None to a task that polls it, or that the drop of
\* the last sender has woken: the while-let loop ends and the task returns.
\* Its locals are dropped: rx with what the mailbox holds, and both maps with
\* the handles in them; no stop request is sent to the actors of those
\* handles.
LoopExit ==
    /\ running
    /\ \/ arm.at = "recv" /\ RecvNone
       \/ arm.at = "parked" /\ RecvNone /\ SendersGone
    /\ running' = FALSE
    /\ closed' = TRUE
    /\ arm' = AtRecv
    /\ queue' = <<>>
    /\ waiters' = <<>>
    /\ pc' = [c \in Callers |->
                IF \E k \in 1..Len(waiters) : waiters[k] = c THEN "rejected" ELSE pc[c]]
    /\ oneshot' = [ch \in Chans |->
                     IF ch \in DroppedTx /\ oneshot[ch].st = "open"
                     THEN Chan("tx_dropped", {}, None) ELSE oneshot[ch]]
    /\ indexes' = EmptyMap
    /\ monitors' = EmptyMap
    /\ UNCHANGED <<subs, pend, ret, last, wkld>>

\* A subordinate actor that was sent stop leaves its loop and its task ends.
ActorExit(a) ==
    /\ actors[a].running
    /\ actors[a].stops > 0
    /\ actors' = Joined(actors, a)
    /\ UNCHANGED <<regs, supervised, modifyDel, mbox, running, arm, clnt, last, wkld>>

\* The steps of the Engine task at rx.recv().
EngineStep ==
    \/ ProcessGetIndexes
    \/ ProcessAddIndex
    \/ ProcessDelIndex
    \/ ProcessGetIndex
    \/ ProcessStop
    \/ RecvPending
    \/ LoopExit

\* The steps of the Engine task at the awaits inside an arm.
ArmStep ==
    \/ MonitorItemsNew
    \/ AttachIndex
    \/ AttachMonitor
    \/ RollbackStop
    \/ RollbackJoin
    \/ StopIndex
    \/ StopMonitor
    \/ ModifyActorDel

Next ==
    \/ \E c \in Callers : get_indexes(c)
    \/ \E c \in Callers, i \in IndexIds, d \in Dimensions : add_index(c, i, d)
    \/ \E c \in Callers, i \in IndexIds : del_index(c, i)
    \/ \E c \in Callers, i \in IndexIds : get_index(c, i)
    \/ \E c \in Callers : actor_stop(c)
    \/ \E c \in Callers : SendGranted(c)
    \/ \E c \in Callers : SendRejected(c)
    \/ \E c \in Callers : Reply(c)
    \/ \E c \in Callers : Cancel(c)
    \/ \E c \in Callers : DropSender(c)
    \/ \E c \in Callers : HandleSend(c)
    \/ ProcessGetIndexes
    \/ ProcessAddIndex
    \/ ProcessDelIndex
    \/ ProcessGetIndex
    \/ ProcessStop
    \/ RecvPending
    \/ LoopExit
    \/ MonitorItemsNew
    \/ AttachIndex
    \/ AttachMonitor
    \/ RollbackStop
    \/ RollbackJoin
    \/ StopIndex
    \/ StopMonitor
    \/ ModifyActorDel
    \/ \E a \in 1..Len(actors) : ActorExit(a)

Spec == Init /\ [][Next]_vars

\* The task of an actor that was sent stop ends.
ActorsExit == \E a \in 1..Len(actors) : ActorExit(a)

\* The Engine task is scheduled whenever it can take a step, the awaits
\* inside an arm return, and a subordinate actor that was sent stop exits.
LiveNext == [][Next]_vars /\ WF_vars(EngineStep) /\ WF_vars(ArmStep) /\ WF_vars(ActorsExit)
LiveSpec == LiveInit /\ LiveNext

\* Moreover a sender that was handed a permit resumes.
FairSpec == LiveInit /\ LiveNext /\ \A c \in Callers : WF_vars(SendGranted(c))

----------------------------------------------------------------------------
\* The step is the Engine taking a message of type t from the mailbox and
\* running its arm up to the first await, or to its end.
Handling(t) ==
    /\ running
    /\ AtHead
    /\ queue # <<>>
    /\ Head(queue).type = t
    /\ running'
    /\ queue' = Tail(queue)

\* The step is the Engine resuming the arm of a message of type t at an await.
Continuing(t) ==
    /\ ~AtHead
    /\ arm.msg.type = t
    /\ arm' # arm

\* The step ends the arm of a message of type t: the Engine is back at recv().
Finishing(t) == (Handling(t) \/ Continuing(t)) /\ arm'.at = "recv"

\* The step is an EngineExt call (or actor_stop) paid from the budget.
Calling == sendsLeft' # sendsLeft

\* C1: in every state between two message-processing steps of the Engine loop
\* the key set of `indexes` equals the key set of `monitors`.
C1_AtomicPairing == AtHead => DOMAIN indexes = DOMAIN monitors

\* C1 witness: a DelIndex removed one pair while another pair stays
\* registered, and the Engine is back at recv().
C1_Witness ==
    /\ AtHead
    /\ last.type = "DelIndex"
    /\ last.outcome = "removed"
    /\ DOMAIN indexes # {}
    /\ DOMAIN indexes = DOMAIN monitors

\* C2: AddIndex(id, ...) processed while id is a key of `indexes` changes
\* neither registry, creates no actor, attaches nothing to the Supervisor and
\* is over at once.
C2_DuplicateAddIsNoOp ==
    [][(Handling("AddIndex") /\ Head(queue).id \in DOMAIN indexes)
          => /\ UNCHANGED <<indexes, monitors, actors, supervised, modifyDel>>
             /\ arm'.at = "recv"]_vars

\* C2 witness: a duplicate AddIndex with parameters index::new would reject
\* was processed while its id was registered.
C2_Witness ==
    /\ last.type = "AddIndex"
    /\ last.outcome = "dup"
    /\ last.dims = 0
    /\ last.id \in DOMAIN indexes

\* The step belongs to the arm of a DelIndex(id) received while id was in
\* neither registry.
AbsentDel ==
    \/ /\ Handling("DelIndex")
       /\ Head(queue).id \notin DOMAIN indexes
       /\ Head(queue).id \notin DOMAIN monitors
    \/ /\ Continuing("DelIndex")
       /\ arm.index_actor = None
       /\ arm.monitor_actor = None

\* C3 (as claimed): DelIndex(id) processed while id is in neither registry
\* changes no registry, sends no stop request and sends no message to any
\* other actor, the persistence actor included.
C3_AbsentDelSendsNothing ==
    [][AbsentDel => UNCHANGED <<indexes, monitors, actors, supervised, modifyDel>>]_vars

\* C3 (amended): DelIndex(id) processed while id is in neither registry
\* changes no registry, sends no stop request and attaches nothing, but still
\* sends exactly one del(id) to the persistence actor, in the step that ends
\* the arm; the loop goes on.
C3_AbsentDelOnlyTellsModify ==
    [][AbsentDel
          => /\ UNCHANGED <<indexes, monitors, actors, supervised>>
             /\ running'
             /\ IF Handling("DelIndex")
                THEN /\ arm'.at = "modify_del"
                     /\ UNCHANGED modifyDel
                ELSE /\ arm.at = "modify_del"
                     /\ arm'.at = "recv"
                     /\ modifyDel' = [modifyDel EXCEPT ![arm.msg.id] = @ + 1]]_vars

\* C3 witness: a DelIndex for an absent id was processed and the persistence
\* actor was told to drop it.
C3_Witness ==
    /\ last.type = "DelIndex"
    /\ last.outcome = "absent"
    /\ modifyDel[last.id] = 1
    /\ Len(actors) = Len(SystemActors)
    /\ running

\* C4: when AddIndex(id) creates the index actor but the monitor fails, the
\* Engine is back at recv() only after the index actor has been sent stop and
\* its task has terminated; the actor was never attached, and no step of that
\* arm changes a registry, the attached set or the persistence actor; an id
\* enters `indexes` only at the end of an AddIndex arm that created both
\* actors, and only actors of an arm that created both are ever attached.
C4_RollbackLeavesNothing ==
    [][/\ (arm.at \in {"rollback_stop", "rollback_join"} /\ arm'.at = "recv")
            => /\ actors'[arm.index_actor].kind = "index"
               /\ actors'[arm.index_actor].id = arm.msg.id
               /\ actors'[arm.index_actor].stops = 1
               /\ ~actors'[arm.index_actor].running
               /\ arm.index_actor \notin supervised'
               /\ arm.msg.id \notin DOMAIN indexes'
               /\ last'.outcome = "monitor_err"
       /\ ((Handling("AddIndex") \/ Continuing("AddIndex"))
              /\ (arm'.at \in {"monitor_new", "rollback_stop", "rollback_join"}
                    \/ arm.at \in {"rollback_stop", "rollback_join"}))
            => UNCHANGED <<indexes, monitors, supervised, modifyDel>>
       /\ \A i \in (DOMAIN indexes') \ (DOMAIN indexes) :
            /\ arm.at = "attach_monitor"
            /\ arm.msg.id = i
            /\ arm.monitor_actor # None
            /\ indexes'[i] = arm.index_actor
       /\ \A a \in supervised' \ supervised :
            /\ arm.at \in {"attach_index", "attach_monitor"}
            /\ a \in {arm.index_actor, arm.monitor_actor}
            /\ arm.monitor_actor # None
            /\ actors[a].stops = 0]_vars

\* C4 witness: the last message was an AddIndex rolled back after the monitor
\* failed; its index actor is stopped, terminated and unattached, and the
\* Engine is back at recv().
C4_Witness ==
    /\ AtHead
    /\ last.type = "AddIndex"
    /\ last.outcome = "monitor_err"
    /\ actors[last.actor].stops = 1
    /\ ~actors[last.actor].running
    /\ last.actor \notin supervised
    /\ last.id \notin DOMAIN indexes

\* C5: AddIndex(id) whose index construction fails changes neither registry,
\* creates no actor, attaches nothing, sends nothing and is over at once; the
\* loop does not end on it (it ends only with an empty mailbox).
C5_IndexFailureLeavesNothing ==
    [][/\ (/\ Handling("AddIndex")
           /\ Head(queue).id \notin DOMAIN indexes
           /\ ~IndexNewOk(Head(queue).dims))
            => /\ UNCHANGED <<indexes, monitors, actors, supervised, modifyDel>>
               /\ arm'.at = "recv"
       /\ (running /\ ~running') => queue = <<>>]_vars

\* C5 witness: an AddIndex with dimensions 0 was processed for an unregistered
\* id and nothing was created.
C5_Witness ==
    /\ last.type = "AddIndex"
    /\ last.outcome = "index_err"
    /\ last.dims = 0
    /\ last.id \notin DOMAIN indexes
    /\ Len(actors) = Len(SystemActors)
    /\ supervised = {1, 2, 3}
    /\ running

\* The index and monitor actors registered under i exist, belong to i and are
\* attached to the Supervisor.
FullyAdded(i) ==
    /\ i \in DOMAIN indexes
    /\ i \in DOMAIN monitors
    /\ actors[indexes[i]].kind = "index"
    /\ actors[indexes[i]].id = i
    /\ actors[monitors[i]].kind = "monitor"
    /\ actors[monitors[i]].id = i
    /\ indexes[i] \in supervised
    /\ monitors[i] \in supervised

\* C6: whenever the Engine replies to GetIndexes with a set containing id, or
\* to GetIndex(id) with a handle, both actors of id are attached to the
\* Supervisor and both registry entries of id are present; the handle is the
\* registered index actor; a reply is sent only by the Engine at recv(), so
\* never while an AddIndex arm is in progress.
C6_VisibleOnlyWhenComplete ==
    [][/\ (Handling("GetIndexes") /\ oneshot'[Head(queue).tx].st = "sent")
            => \A i \in oneshot'[Head(queue).tx].ids : FullyAdded(i)
       /\ (/\ Handling("GetIndex")
           /\ oneshot'[Head(queue).tx].st = "sent"
           /\ oneshot'[Head(queue).tx].handle # None)
            => /\ FullyAdded(Head(queue).id)
               /\ oneshot'[Head(queue).tx].handle = indexes[Head(queue).id]
       /\ \A ch \in Chans :
            (oneshot[ch].st # "sent" /\ oneshot'[ch].st = "sent")
                => /\ Handling("GetIndexes") \/ Handling("GetIndex")
                   /\ Head(queue).tx = ch]_vars

\* C6 witness: a get_index call returned a handle and a get_indexes call
\* returned a set containing an id.
C6_Witness ==
    \E c, d \in Callers :
        /\ ret[c].op = "GetIndex"
        /\ ret[c].via = "reply"
        /\ ret[c].handle # None
        /\ ret[d].op = "GetIndexes"
        /\ ret[d].via = "reply"
        /\ ret[d].ids # {}

\* C7: the loop ends only when the mailbox is closed (or has no sender left),
\* empty and without outstanding permit; a buffered message leaves the mailbox
\* only at its head, by being processed; a GetIndexes / GetIndex processed
\* then, also after Stop, is answered from the registry as it is at that
\* moment, and no caller's reply sender is ever dropped unanswered.
C7_DrainOnStop ==
    [][/\ (running /\ ~running')
            => (queue = <<>> /\ Granted = {} /\ (closed \/ SendersGone))
       /\ (queue' # queue)
            => \/ /\ Len(queue') = Len(queue) + 1
                  /\ SubSeq(queue', 1, Len(queue)) = queue
               \/ /\ running /\ running'
                  /\ queue # <<>>
                  /\ queue' = Tail(queue)
                  /\ \/ arm'.msg = Head(queue)
                     \/ /\ arm'.at = "recv"
                        /\ last'.type = Head(queue).type
                        /\ last'.id = Head(queue).id
       /\ (Handling("GetIndexes") /\ oneshot[Head(queue).tx].st = "open")
            => oneshot'[Head(queue).tx] = Chan("sent", DOMAIN indexes, None)
       /\ (Handling("GetIndex") /\ oneshot[Head(queue).tx].st = "open")
            => oneshot'[Head(queue).tx] =
                  Chan("sent", {}, IF Head(queue).id \in DOMAIN indexes
                                   THEN indexes[Head(queue).id] ELSE None)
       /\ \A ch \in Chans : oneshot'[ch].st # "tx_dropped"
       /\ \A c \in Callers : ret'[c].via # "recv_err"]_vars

\* C7 witness: after Stop closed the mailbox and while the loop still drains
\* it, a GetIndexes that was buffered behind Stop was answered with the
\* non-empty registry.
C7_Witness ==
    /\ running
    /\ closed
    /\ last.type = "GetIndexes"
    /\ last.outcome = "replied"
    /\ \E ch \in Chans : oneshot[ch].st = "sent" /\ oneshot[ch].ids = DOMAIN indexes
    /\ DOMAIN indexes # {}

\* The message that carries the sender of oneshot channel ch is buffered in
\* the mailbox.
Accepted(ch) == \E k \in 1..Len(queue) : HasReply(queue[k]) /\ queue[k].tx = ch

\* C8: under fair scheduling every GetIndexes / GetIndex the mailbox accepted
\* is eventually answered (unless its requester gave up first), also when it
\* was accepted after Stop had closed the mailbox, and no reply sender is ever
\* dropped without an answer.
C8_AcceptedIsAnswered ==
    /\ \A ch \in Chans :
          (Accepted(ch) /\ oneshot[ch].st = "open")
              ~> (~Accepted(ch) /\ oneshot[ch].st # "open")
    /\ [](\A ch \in Chans : oneshot[ch].st # "tx_dropped")

\* C8 witness: a GetIndex accepted before the close was answered with a handle
\* after Stop had closed the mailbox, its caller still waiting for the reply.
C8_Witness ==
    /\ running
    /\ closed
    /\ last.type = "GetIndex"
    /\ last.outcome = "replied"
    /\ \E c \in Callers :
          /\ pc[c] = "recv"
          /\ oneshot[pend[c].tx].st = "sent"
          /\ oneshot[pend[c].tx].handle # None

\* C9: processing Stop closes the mailbox and wakes every sender still on the
\* wait list with an error; a call issued on the closed mailbox returns at
\* once, buffers nothing and changes no registry, get_indexes / get_index
\* returning the empty set / none; a woken sender returns the same way, unless
\* its call is dropped; no sender is on the wait list of a closed mailbox.
C9_ClosedMailboxRejects ==
    [][/\ Handling("Stop")
            => /\ closed'
               /\ \A k \in 2..Len(waiters) : pc'[waiters[k]] = "rejected"
       /\ closed' => waiters' = <<>>
       /\ (closed /\ Calling)
            => /\ UNCHANGED <<queue, waiters, pc, pend, oneshot>>
               /\ UNCHANGED <<indexes, monitors, actors, supervised, modifyDel>>
               /\ \A c \in Callers :
                     ret'[c] # ret[c] =>
                        /\ ret'[c].via = "send_err"
                        /\ ret'[c].ids = {}
                        /\ ret'[c].handle = None
       /\ \A c \in Callers :
            (pc[c] = "rejected" /\ pc'[c] # "rejected")
                => /\ pc'[c] = "idle"
                   /\ UNCHANGED <<queue, indexes, monitors, actors, supervised, modifyDel>>
                   /\ ret'[c] \in {ret[c], Ret(pend[c].type, "send_err", {}, None)}]_vars

\* C9 witness: a get_indexes caller that was suspended for capacity when Stop
\* was processed was woken with the error and has returned the empty set.
C9_Witness ==
    /\ closed
    /\ \E c, d \in Callers :
          /\ c # d
          /\ pc[c] = "idle"
          /\ ret[c] = Ret("GetIndexes", "send_err", {}, None)
          /\ pc[d] = "rejected"

\* C10 (as claimed): of two AddIndex messages for the same id processed one
\* after the other, the second changes nothing and spawns nothing.
C10_OnlyFirstAddActs ==
    [][(/\ Handling("AddIndex")
        /\ last.type = "AddIndex"
        /\ last.id = Head(queue).id
        /\ last.dims = Head(queue).dims)
          => UNCHANGED <<indexes, monitors, actors, supervised, modifyDel>>]_vars

\* C10 (amended): of two AddIndex messages for the same id processed one after
\* the other, the second changes nothing and spawns nothing when the first
\* left id registered; when the first failed, id is unregistered and the
\* second is processed as a fresh AddIndex.
C10_SecondAddAfterSuccessIsNoOp ==
    [][(/\ Handling("AddIndex")
        /\ last.type = "AddIndex"
        /\ last.id = Head(queue).id)
          => /\ last.outcome \in {"added", "dup"}
                  => /\ UNCHANGED <<indexes, monitors, actors, supervised, modifyDel>>
                     /\ arm'.at = "recv"
                     /\ last'.outcome = "dup"
             /\ last.outcome \in {"index_err", "monitor_err"}
                  => /\ Head(queue).id \notin DOMAIN indexes
                     /\ last'.outcome # "dup"]_vars

\* C10 witness: exactly two messages were sent, both AddIndex for one id; the
\* first created the only actor pair and the second was ignored.
C10_Witness ==
    /\ last.type = "AddIndex"
    /\ last.outcome = "dup"
    /\ last.dims = 128
    /\ last.id \in DOMAIN indexes
    /\ Len(actors) = Len(SystemActors) + 2
    /\ queue = <<>>
    /\ sendsLeft = MaxSends - 2
    /\ ~storm

\* The reference set model: R gains id on an AddIndex(id) whose index and
\* monitor constructions both succeeded, loses id on a DelIndex(id).
RefAfter(R, m, built) ==
    IF m.type = "AddIndex" /\ built THEN R \cup {m.id}
    ELSE IF m.type = "DelIndex" THEN R \ {m.id}
    ELSE R

\* The step ends the arm of some message; Ended is that message, and
\* BuiltBoth says that the arm constructed the index and the monitor actor.
Ending == \E t \in AllCalls : Finishing(t)
Ended == IF AtHead THEN Head(queue) ELSE arm.msg
BuiltBoth == arm.at = "attach_monitor"

\* C11: with R the reference set run over the Engine's processing order
\* (empty at start, changed as RefAfter says by each message the Engine
\* finishes), the key set of `indexes` is R whenever the Engine is at recv():
\* a DelIndex(id) takes id out as it is received, every other change is made
\* by the step that ends an arm, until the loop exits and the registry is
\* dropped; every GetIndexes reply is R at the moment it
\* is processed and every GetIndex(id) reply is a handle exactly when id is in
\* R; the callers return what the Engine replied.
C11_RepliesAgreeWithReferenceSet ==
    /\ DOMAIN indexes = {}
    /\ [][/\ IF Handling("DelIndex")
             THEN DOMAIN indexes' = RefAfter(DOMAIN indexes, Head(queue), FALSE)
             ELSE IF Ending
             THEN DOMAIN indexes' = RefAfter(DOMAIN indexes, Ended, BuiltBoth)
             ELSE IF running /\ ~running'
             THEN DOMAIN indexes' = {}
             ELSE DOMAIN indexes' = DOMAIN indexes
          /\ (Handling("GetIndexes") /\ oneshot[Head(queue).tx].st = "open")
               => /\ oneshot'[Head(queue).tx].st = "sent"
                  /\ oneshot'[Head(queue).tx].ids = DOMAIN indexes
          /\ (Handling("GetIndex") /\ oneshot[Head(queue).tx].st = "open")
               => /\ oneshot'[Head(queue).tx].st = "sent"
                  /\ (oneshot'[Head(queue).tx].handle # None)
                        <=> (Head(queue).id \in DOMAIN indexes)
          /\ \A c \in Callers :
               (pc[c] = "recv" /\ ret'[c] # ret[c] /\ oneshot[pend[c].tx].st = "sent")
                  => /\ ret'[c].via = "reply"
                     /\ ret'[c].ids = oneshot[pend[c].tx].ids
                     /\ ret'[c].handle = oneshot[pend[c].tx].handle]_vars

\* C11 witness: after an AddIndex(id) that registered id and a DelIndex(id)
\* that removed it, get_indexes returned {} and get_index(id) returned none.
C11_Witness ==
    \E c, d \in Callers, i \in IndexIds :
        /\ Len(actors) = Len(SystemActors) + 2
        /\ actors[Len(actors)].id = i
        /\ modifyDel[i] = 1
        /\ ret[c] = Ret("GetIndexes", "reply", {}, None)
        /\ ret[d] = Ret("GetIndex", "reply", {}, None)
        /\ last.type = "GetIndex"
        /\ last.id = i

\* C12: DelIndex(id) received while id is registered removes id from
\* `indexes` at once and, by the end of its arm, from `monitors`; it sends
\* exactly one stop request to id's index actor and exactly one to id's
\* monitor actor, then exactly one del(id) to the persistence actor, and
\* leaves the entries and actors of every other id (and the Supervisor's
\* attached set) as they were.
C12_DelIndexStopsThePair ==
    [][/\ (/\ Handling("DelIndex")
           /\ Head(queue).id \in DOMAIN indexes
           /\ Head(queue).id \in DOMAIN monitors)
            => /\ indexes' = Remove(indexes, Head(queue).id)
               /\ \A j \in DOMAIN indexes' : indexes'[j] = indexes[j]
               /\ arm' = Arm("stop_index", Head(queue), indexes[Head(queue).id], None)
               /\ actors[indexes[Head(queue).id]].stops = 0
               /\ actors[monitors[Head(queue).id]].stops = 0
               /\ UNCHANGED <<monitors, actors, supervised, modifyDel>>
       /\ (Continuing("DelIndex") /\ arm.index_actor # None)
            => /\ UNCHANGED <<indexes, supervised>>
               /\ DOMAIN monitors' = (DOMAIN monitors) \ {arm.msg.id}
               /\ \A j \in DOMAIN monitors' : monitors'[j] = monitors[j]
               /\ Len(actors') = Len(actors)
               /\ \A a \in 1..Len(actors) :
                     a \notin {arm.index_actor, arm.monitor_actor} => actors'[a] = actors[a]
               /\ arm'.at # "recv" => UNCHANGED modifyDel
               /\ arm'.at = "recv"
                     => /\ arm.monitor_actor # None
                        /\ arm.monitor_actor # arm.index_actor
                        /\ actors'[arm.index_actor].kind = "index"
                        /\ actors'[arm.index_actor].id = arm.msg.id
                        /\ actors'[arm.index_actor].stops = 1
                        /\ actors'[arm.monitor_actor].kind = "monitor"
                        /\ actors'[arm.monitor_actor].id = arm.msg.id
                        /\ actors'[arm.monitor_actor].stops = 1
                        /\ arm.msg.id \notin (DOMAIN indexes') \cup (DOMAIN monitors')
                        /\ modifyDel' = [modifyDel EXCEPT ![arm.msg.id] = @ + 1]]_vars

\* C12 witness: a DelIndex removed a registered id, whose two actors each got
\* one stop request, while another id stays registered with actors that were
\* sent none.
C12_Witness ==
    /\ AtHead
    /\ last.type = "DelIndex"
    /\ last.outcome = "removed"
    /\ last.id \notin DOMAIN indexes
    /\ modifyDel[last.id] = 1
    /\ \E a, b \in 1..Len(actors) :
          /\ actors[a].kind = "index" /\ actors[a].id = last.id /\ actors[a].stops = 1
          /\ actors[b].kind = "monitor" /\ actors[b].id = last.id /\ actors[b].stops = 1
    /\ \E j \in DOMAIN indexes :
          /\ j \in DOMAIN monitors
          /\ actors[indexes[j]].stops = 0
          /\ actors[monitors[j]].stops = 0

\* The index actors of i that were registered at some time: those attached to
\* the Supervisor, apart from the one of an AddIndex arm still in progress.
RegisteredOnce(i) ==
    {a \in 1..Len(actors) : /\ actors[a].kind = "index"
                            /\ actors[a].id = i
                            /\ a \in supervised
                            /\ AtHead \/ arm.msg.type # "AddIndex" \/ arm.index_actor # a}

\* i was removed by a DelIndex and no AddIndex(i) has succeeded since: the
\* newest index actor ever registered under i has been sent a stop request.
DeletedSince(i) ==
    /\ RegisteredOnce(i) # {}
    /\ \E a \in RegisteredOnce(i) :
          /\ \A b \in RegisteredOnce(i) : b <= a
          /\ actors[a].stops > 0

\* C13: DelIndex(id) does not wait for the stopped actors to exit: each await
\* of its arm can return while their tasks are running, no step of the arm
\* ends a task, and the loop goes on; from the end of that DelIndex until an
\* AddIndex(id) succeeds id is in no registry, no GetIndexes reply contains id
\* and every GetIndex(id) reply is none.
C13_DeletedIsInvisibleAtOnce ==
    /\ [](\A i \in IndexIds : DeletedSince(i) => i \notin DOMAIN indexes)
    /\ []((~AtHead /\ arm.msg.type = "DelIndex") => ENABLED ArmStep)
    /\ [][/\ Continuing("DelIndex")
               => /\ \A a \in 1..Len(actors) : actors'[a].running = actors[a].running
                  /\ running'
          /\ (Finishing("DelIndex") /\ arm.index_actor # None)
               => /\ \A i \in {arm.msg.id} : DeletedSince(i)'
                  /\ arm.msg.id \notin (DOMAIN indexes') \cup (DOMAIN monitors')
          /\ (Handling("GetIndexes") /\ oneshot'[Head(queue).tx].st = "sent")
               => \A i \in oneshot'[Head(queue).tx].ids : ~DeletedSince(i)
          /\ (/\ Handling("GetIndex")
              /\ oneshot'[Head(queue).tx].st = "sent"
              /\ DeletedSince(Head(queue).id))
               => oneshot'[Head(queue).tx].handle = None
          /\ \A i \in IndexIds :
               (DeletedSince(i) /\ ~DeletedSince(i)')
                  => /\ Finishing("AddIndex")
                     /\ arm.msg.id = i
                     /\ BuiltBoth
                     /\ i \in DOMAIN indexes']_vars

\* C13 witness: the Engine has answered a GetIndexes without the deleted id
\* and a GetIndex of it with none, while the deleted index and monitor actors,
\* both sent stop, are still running.
C13_Witness ==
    \E c, d \in Callers, i \in IndexIds :
        /\ running
        /\ DeletedSince(i)
        /\ \E a, b \in 1..Len(actors) :
              /\ actors[a].kind = "index" /\ actors[a].id = i
              /\ actors[a].stops = 1 /\ actors[a].running
              /\ actors[b].kind = "monitor" /\ actors[b].id = i
              /\ actors[b].stops = 1 /\ actors[b].running
        /\ ret[c].op = "GetIndexes" /\ ret[c].via = "reply" /\ i \notin ret[c].ids
        /\ ret[d] = Ret("GetIndex", "reply", {}, None)
        /\ last.type = "GetIndex"
        /\ last.id = i

\* C14 (as claimed): when the Engine loop exits after Stop, every index actor
\* and every monitor actor still registered at that moment (also one
\* registered by an AddIndex drained after Stop) has been sent a stop request.
C14_ShutdownStopsRegistered ==
    [][(running /\ closed /\ ~running')
          => \A i \in DOMAIN indexes :
                /\ actors'[indexes[i]].stops > 0
                /\ actors'[monitors[i]].stops > 0]_vars

\* The message at the head of the mailbox is one whose processing fails at
\* once: an AddIndex whose index construction fails, or a GetIndexes /
\* GetIndex whose requester already dropped its receiver.
HeadFails ==
    \/ /\ Head(queue).type = "AddIndex"
       /\ Head(queue).id \notin DOMAIN indexes
       /\ ~IndexNewOk(Head(queue).dims)
    \/ /\ HasReply(Head(queue))
       /\ oneshot[Head(queue).tx].st # "open"

\* The Engine is inside the rollback of an AddIndex whose monitor failed.
InRollback == arm.at \in {"rollback_stop", "rollback_join"}

\* C15: no per-message failure ends the Engine loop. A message whose index
\* construction fails, whose monitor construction fails (rollback) or whose
\* reply cannot be delivered leaves the loop running, the mailbox open as it
\* was and both registries as its predecessors left them; at recv() the loop
\* can take a buffered message; the mailbox is closed only by processing Stop
\* (or by the exit itself), and the loop exits only at recv(), when the
\* mailbox is empty and either closed or without senders.
C15_FailuresDoNotEndLoop ==
    /\ []((running /\ AtHead /\ queue # <<>>) => ENABLED EngineStep)
    /\ [][/\ (running /\ queue # <<>> /\ queue' = Tail(queue)) => running'
          /\ (InRollback /\ arm' # arm)
               => /\ running'
                  /\ UNCHANGED <<indexes, monitors, closed>>
                  /\ arm'.at \in {"rollback_join", "recv"}
          /\ (running /\ AtHead /\ queue # <<>> /\ queue' = Tail(queue) /\ HeadFails)
               => /\ UNCHANGED <<indexes, monitors, actors, supervised, modifyDel, closed>>
                  /\ arm'.at = "recv"
          /\ (closed' /\ ~closed)
               => \/ Handling("Stop")
                  \/ running /\ ~running' /\ SendersGone
          /\ (running /\ ~running')
               => /\ AtHead
                  /\ queue = <<>>
                  /\ closed \/ SendersGone]_vars

\* C15 witness: after an AddIndex that registered an id, a later AddIndex was
\* rolled back and then the reply to a requester that had dropped its
\* receiver could not be delivered; the loop is still running on an open
\* mailbox, back at recv(), and the registered id is intact.
C15_Witness ==
    /\ running
    /\ ~closed
    /\ arm.at = "recv"
    /\ DOMAIN indexes # {}
    /\ \E a \in 1..Len(actors) :
          /\ a \notin supervised
          /\ actors[a].stops = 1
          /\ \E i \in DOMAIN indexes : indexes[i] < a
    /\ last.type = "GetIndex"
    /\ last.outcome = "reply_failed"
    /\ last.id \in DOMAIN indexes

\* C16: processing GetIndexes or GetIndex has no side effects: both
\* registries, every subordinate actor (running or not, stop requests
\* received), the Supervisor's attached set and the messages sent to the
\* persistence actor are the same after the message as before, whether the
\* reply was delivered or the requester had dropped its receiver.
C16_LookupsHaveNoSideEffects ==
    [][(\/ Handling("GetIndexes")
        \/ Handling("GetIndex"))
          => /\ UNCHANGED <<indexes, monitors, actors, supervised, modifyDel>>
             /\ UNCHANGED <<closed, running>>
             /\ arm'.at = "recv"
             /\ last'.outcome \in {"replied", "reply_failed"}
             /\ last'.outcome = "reply_failed"
                   => oneshot' = [oneshot EXCEPT ![Head(queue).tx] = NoChan]]_vars

\* C16 witness: with an id registered, a get_index returned its handle and
\* then a GetIndexes whose requester had dropped the receiver was processed.
C16_Witness ==
    /\ DOMAIN indexes # {}
    /\ last.type = "GetIndexes"
    /\ last.outcome = "reply_failed"
    /\ \E d \in Callers :
          /\ ret[d].op = "GetIndex"
          /\ ret[d].via = "reply"
          /\ ret[d].handle # None

\* Caller c holds the handle of the index actor registered under i.
HoldsHandle(c, i) == i \in DOMAIN indexes /\ ret[c].handle = indexes[i]

\* The step is caller c sending on the handle it holds.
SendsOnHandle(c) ==
    /\ pc[c] = "idle"
    /\ ret[c].handle # None
    /\ ret'[c] # ret[c]
    /\ ret'[c].op = "IndexSend"

\* C17: a handle get_index returned stays usable after a DelIndex(id) that
\* is processed right after the lookup. The outstanding handle neither
\* prevents nor delays the DelIndex: the Engine can take it whenever it is at
\* the head of the mailbox, every await of its arm can return, the entry is
\* removed as the message is received and the arm ends with id in neither
\* registry. A send on the handle is always possible for its holder, changes
\* neither registry, no actor, no attachment and nothing of the Engine's
\* mailbox, and when the actor has been sent stop the message is dropped or
\* rejected.
C17_StaleHandleIsHarmless ==
    /\ [](\A c \in Callers :
             (pc[c] = "idle" /\ ret[c].handle # None) => ENABLED HandleSend(c))
    /\ []((running /\ AtHead /\ queue # <<>> /\ Head(queue).type = "DelIndex")
             => ENABLED ProcessDelIndex)
    /\ []((~AtHead /\ arm.msg.type = "DelIndex") => ENABLED ArmStep)
    /\ [][/\ (/\ Handling("DelIndex")
              /\ \E c \in Callers : HoldsHandle(c, Head(queue).id))
               => /\ Head(queue).id \notin DOMAIN indexes'
                  /\ arm'.at = "stop_index"
                  /\ arm'.index_actor = indexes[Head(queue).id]
                  /\ UNCHANGED ret
          /\ (Finishing("DelIndex") /\ arm.index_actor # None)
               => /\ arm.msg.id \notin (DOMAIN indexes') \cup (DOMAIN monitors')
                  /\ actors'[arm.index_actor].stops = 1
                  /\ UNCHANGED ret
          /\ \A c \in Callers :
               SendsOnHandle(c)
                  => /\ UNCHANGED <<indexes, monitors, actors, supervised, modifyDel>>
                     /\ UNCHANGED <<queue, closed, waiters, running, arm>>
                     /\ ret'[c].handle = ret[c].handle
                     /\ actors[ret[c].handle].stops > 0
                           => ret'[c].via \in {"dropped", "rejected"}]_vars

\* C17 witness: get_index(id) returned the handle, the very next message the
\* Engine processed was DelIndex(id), which removed the entry, and the
\* caller's send on the stale handle was dropped by the actor, which is
\* stopping but still running; id is not registered.
C17_Witness ==
    \E c \in Callers :
        /\ ret[c].op = "IndexSend"
        /\ ret[c].via = "dropped"
        /\ actors[ret[c].handle].kind = "index"
        /\ actors[ret[c].handle].stops = 1
        /\ actors[ret[c].handle].running
        /\ last.type = "DelIndex"
        /\ last.outcome = "removed"
        /\ last.id = actors[ret[c].handle].id
        /\ last.id \notin DOMAIN indexes
        /\ Len(actors) = Len(SystemActors) + 2

\* The actors the Engine loop created (after the three system actors) that
\* have not been sent a stop request.
Unstopped ==
    {a \in (Len(SystemActors) + 1)..Len(actors) : actors[a].stops = 0}

\* C18: while the Engine runs, in every state between two message-processing
\* steps each index actor and each monitor actor the Engine created that has
\* not been sent a stop request is the one registered under its id; so per
\* id at most one index actor and one monitor actor without a stop request
\* exist, also after DelIndex(id) followed by a new successful AddIndex(id).
C18_NoOrphanActors ==
    (running /\ AtHead) =>
        /\ \A a \in Unstopped :
              /\ actors[a].kind \in {"index", "monitor"}
              /\ actors[a].kind = "index"
                    => actors[a].id \in DOMAIN indexes /\ indexes[actors[a].id] = a
              /\ actors[a].kind = "monitor"
                    => actors[a].id \in DOMAIN monitors /\ monitors[actors[a].id] = a
        /\ \A a, b \in Unstopped :
              (actors[a].kind = actors[b].kind /\ actors[a].id = actors[b].id) => a = b

\* C18 witness: an id was added, deleted and added again, and another
\* AddIndex was rolled back; the first pair has been sent stop and the
\* second pair is the registered one; the Engine is back at recv().
C18_Witness ==
    /\ running
    /\ AtHead
    /\ \E i \in DOMAIN indexes :
          /\ actors[indexes[i]].stops = 0
          /\ actors[monitors[i]].stops = 0
          /\ \E a, b \in 1..Len(actors) :
                /\ a < indexes[i] /\ b < indexes[i]
                /\ actors[a].kind = "index" /\ actors[a].id = i /\ actors[a].stops = 1
                /\ actors[b].kind = "monitor" /\ actors[b].id = i /\ actors[b].stops = 1
    /\ \E r \in 1..Len(actors) :
          actors[r].kind = "index" /\ r \notin supervised /\ actors[r].stops = 1

\* C19: a failed AddIndex(id) leaves nothing behind that blocks a retry.
\* After an AddIndex(id) that failed at index construction or was rolled back
\* id is in neither registry; an AddIndex(id) with valid parameters received
\* while id is unregistered always creates a new index actor and awaits the
\* monitor construction, whatever happened before, and that can succeed; when
\* it does, the arm ends with id registered in both registries with the two
\* actors it created, both attached and neither sent stop.
C19_FailedAddCanBeRetried ==
    /\ []((last.type = "AddIndex" /\ last.outcome \in {"index_err", "monitor_err"} /\ AtHead)
             => last.id \notin (DOMAIN indexes) \cup (DOMAIN monitors))
    /\ []((/\ running
           /\ AtHead
           /\ queue # <<>>
           /\ Head(queue).type = "AddIndex"
           /\ Head(queue).id \notin DOMAIN indexes
           /\ IndexNewOk(Head(queue).dims))
             => ENABLED (ProcessAddIndex /\ arm'.at = "monitor_new"))
    /\ [](arm.at = "monitor_new" => ENABLED (MonitorItemsNew /\ arm'.at = "attach_index"))
    /\ [][/\ (/\ Handling("AddIndex")
              /\ Head(queue).id \notin DOMAIN indexes
              /\ IndexNewOk(Head(queue).dims))
               => /\ actors' = Append(actors, NewActor("index", Head(queue).id))
                  /\ arm' = Arm("monitor_new", Head(queue), Len(actors) + 1, None)
          /\ (arm.at = "monitor_new" /\ arm'.at = "attach_index")
               => /\ actors' = Append(actors, NewActor("monitor", arm.msg.id))
                  /\ arm'.monitor_actor = Len(actors) + 1
                  /\ arm'.index_actor = arm.index_actor
          /\ (Finishing("AddIndex") /\ BuiltBoth)
               => /\ indexes' = Insert(indexes, arm.msg.id, arm.index_actor)
                  /\ monitors' = Insert(monitors, arm.msg.id, arm.monitor_actor)
                  /\ actors'[arm.index_actor] = NewActor("index", arm.msg.id)
                  /\ actors'[arm.monitor_actor] = NewActor("monitor", arm.msg.id)
                  /\ {arm.index_actor, arm.monitor_actor} \subseteq supervised'
                  /\ arm.index_actor \notin {indexes[j] : j \in DOMAIN indexes}
                  /\ arm.monitor_actor \notin {monitors[j] : j \in DOMAIN monitors}]_vars

\* C19 witness: an AddIndex(id) was rolled back after its monitor failed, and
\* a later AddIndex(id) registered id with a fresh pair of actors.
C19_Witness ==
    /\ AtHead
    /\ last.type = "AddIndex"
    /\ last.outcome = "added"
    /\ last.id \in DOMAIN indexes
    /\ last.id \in DOMAIN monitors
    /\ indexes[last.id] = Len(actors) - 1
    /\ monitors[last.id] = Len(actors)
    /\ actors[Len(actors)].stops = 0
    /\ \E r \in 1..Len(actors) :
          /\ r < indexes[last.id]
          /\ actors[r].kind = "index"
          /\ actors[r].id = last.id
          /\ r \notin supervised
          /\ actors[r].stops = 1
          /\ ~actors[r].running

\* C20 (as claimed): under fair scheduling, every subordinate call returning,
\* once Stop has been processed the Engine loop terminates.
C20_StopTerminatesTheLoop == (closed /\ running) ~> ~running

====
